---- MODULE Spec2Model ----
(***************************************************************************)
(* Model of the research-paper analyzer (src/app.py, src/models.py).       *)
(*                                                                         *)
(* Texts are sequences of one-character strings.  extract_metadata and     *)
(* the encode/decode helpers are operators computed the way the Python     *)
(* code computes them; the Flask handlers are actions over the papers      *)
(* table, with one step per database access or text-generation call.      *)
(***************************************************************************)
EXTENDS Integers, Sequences, FiniteSets, TLC

VARIABLES text, out, decoded, papers, req, calls, resp

vars == <<text, out, decoded, papers, req, calls, resp>>

(***************************************************************************)
(* Characters and character classes                                        *)
(***************************************************************************)
UpperSeq == <<"A","B","C","D","E","F","G","H","I","J","K","L","M",
              "N","O","P","Q","R","S","T","U","V","W","X","Y","Z">>

LowerSeq == <<"a","b","c","d","e","f","g","h","i","j","k","l","m",
              "n","o","p","q","r","s","t","u","v","w","x","y","z">>

UpperChars == {UpperSeq[i] : i \in 1..26}

LowerChars == {LowerSeq[i] : i \in 1..26}

Digits == {"0","1","2","3","4","5","6","7","8","9"}

Whitespace == {" ", "\n", "\t"}

NL == <<"\n">>

BR == <<"<","b","r",">">>

TwoSpaces == <<" "," ">>

NBSP2 == <<"&","n","b","s","p",";","&","n","b","s","p",";">>

UnknownTitle == <<"U","n","k","n","o","w","n"," ","T","i","t","l","e">>

UnknownAuthors == <<"U","n","k","n","o","w","n"," ","A","u","t","h","o","r","s">>

AbstractNotFound == <<"A","b","s","t","r","a","c","t"," ","n","o","t"," ","f","o","u","n","d">>

AbstractWord == <<"a","b","s","t","r","a","c","t">>

IntroWord == <<"i","n","t","r","o","d","u","c","t","i","o","n">>

Markers == { AbstractWord,
             <<"d","a","t","e">>,
             <<"c","o","r","r","e","s","p","o","n","d","e","n","c","e">>,
             <<"a","f","f","i","l","i","a","t","i","o","n">> }

LookAhead == 15

TitleMinLen == 10

SetMin(S) == CHOOSE x \in S : \A y \in S : x <= y

SetMax(S) == CHOOSE x \in S : \A y \in S : x >= y

Min2(a, b) == IF a <= b THEN a ELSE b

IsUpper(c) == c \in UpperChars

ToLower(c) == IF c \in UpperChars
              THEN LowerSeq[CHOOSE i \in 1..26 : UpperSeq[i] = c]
              ELSE c

(***************************************************************************)
(* Python string primitives                                                *)
(***************************************************************************)
\* s[p:p+len(w)] == w   (p is 1-based)
StartsAt(s, p, w) == /\ p >= 1
                     /\ p + Len(w) - 1 <= Len(s)
                     /\ \A k \in 1..Len(w) : s[p + k - 1] = w[k]

\* s[p:p+len(w)] equals the lower-case word w, ignoring case (re.IGNORECASE)
StartsAtCI(s, p, w) == /\ p >= 1
                       /\ p + Len(w) - 1 <= Len(s)
                       /\ \A k \in 1..Len(w) : ToLower(s[p + k - 1]) = w[k]

\* w in s
Contains(s, w) == \E p \in 1..(Len(s) - Len(w) + 1) : StartsAt(s, p, w)

\* str.strip()
Strip(s) == LET keep == {i \in 1..Len(s) : s[i] \notin Whitespace}
            IN  IF keep = {} THEN <<>> ELSE SubSeq(s, SetMin(keep), SetMax(keep))

\* str.replace(old, new): leftmost, non-overlapping occurrences
RECURSIVE ReplaceFrom(_, _, _, _)
ReplaceFrom(s, i, old, new) ==
    IF i > Len(s) THEN <<>>
    ELSE IF StartsAt(s, i, old) THEN new \o ReplaceFrom(s, i + Len(old), old, new)
    ELSE <<s[i]>> \o ReplaceFrom(s, i + 1, old, new)

Replace(s, old, new) == ReplaceFrom(s, 1, old, new)

\* str.split('\n')
RECURSIVE SplitFrom(_, _, _)
SplitFrom(t, i, cur) ==
    IF i > Len(t) THEN <<cur>>
    ELSE IF t[i] = "\n" THEN <<cur>> \o SplitFrom(t, i + 1, <<>>)
    ELSE SplitFrom(t, i + 1, Append(cur, t[i]))

SplitLines(t) == SplitFrom(t, 1, <<>>)

\* ' '.join(lines[a:b])   (a, b are Python's 0-based slice bounds)
RECURSIVE JoinSlice(_, _, _)
JoinSlice(lines, a, b) ==
    IF a >= b \/ a >= Len(lines) THEN <<>>
    ELSE IF a + 1 >= b \/ a + 1 >= Len(lines) THEN lines[a + 1]
    ELSE lines[a + 1] \o <<" ">> \o JoinSlice(lines, a + 1, b)

\* x in lines
InList(lines, x) == \E i \in 1..Len(lines) : lines[i] = x

\* lines.index(x), 0-based; NotFound stands for ValueError
NotFound == -1

ListIndex(lines, x) ==
    IF InList(lines, x)
    THEN SetMin({i \in 1..Len(lines) : lines[i] = x}) - 1
    ELSE NotFound

\* first position >= p whose character is not in S
RECURSIVE SkipWhile(_, _, _)
SkipWhile(s, p, S) ==
    IF p <= Len(s) /\ s[p] \in S THEN SkipWhile(s, p + 1, S) ELSE p

(***************************************************************************)
(* extract_metadata (src/app.py:21-55)                                     *)
(***************************************************************************)
\* the filter of the title generator, line 30
TitleQualifies(line) ==
    /\ Strip(line) # <<>>
    /\ (IsUpper(line[1]) \/ Len(Strip(line)) > TitleMinLen)

\* next((line.strip() for line in lines if ...), "Unknown Title")
RECURSIVE FirstTitle(_, _)
FirstTitle(lines, i) ==
    IF i > Len(lines) THEN UnknownTitle
    ELSE IF TitleQualifies(lines[i]) THEN Strip(lines[i])
    ELSE FirstTitle(lines, i + 1)

\* variant: the index is looked up without the membership guard
TitleInLinesUnguarded(lines, title) == TRUE

\* the guard "if title in lines" of line 34
TitleInLines(lines, title) == InList(lines, title)

\* re.search(r'(?i)abstract|date|correspondence|affiliation', line)
HasMarker(line) ==
    \E m \in Markers : \E p \in 1..(Len(line) - Len(m) + 1) : StartsAtCI(line, p, m)

\* the loop of lines 36-40; i and stop are 0-based, result is end_idx
RECURSIVE ScanEnd(_, _, _)
ScanEnd(lines, i, stop) ==
    IF i >= stop THEN Len(lines)
    ELSE IF HasMarker(Strip(lines[i + 1])) THEN i
    ELSE ScanEnd(lines, i + 1, stop)

\* variant: the window also closes the block when it holds no marker line
EndIdxCapped(lines, start_idx) ==
    LET stop == Min2(start_idx + LookAhead, Len(lines))
        e    == ScanEnd(lines, start_idx, stop)
    IN  IF e = Len(lines) THEN stop ELSE e

EndIdx(lines, start_idx) ==
    ScanEnd(lines, start_idx, Min2(start_idx + LookAhead, Len(lines)))

(* The author pattern of line 43.  Every quantifier is greedy and what     *)
(* follows it is optional, so the backtracking matcher never gives back    *)
(* what a quantifier took: the match is the greedy left-to-right walk.     *)
(* Positions are 1-based; an end position is the first position after the  *)
(* match; 0 means no match.                                                *)

\* [A-Z][a-z]+
NameEnd(b, p) ==
    IF /\ p + 1 <= Len(b)
       /\ b[p] \in UpperChars
       /\ b[p + 1] \in LowerChars
    THEN SkipWhile(b, p + 1, LowerChars)
    ELSE 0

\* (?:\s+[A-Z][a-z]+)*
RECURSIVE WordsEnd(_, _)
WordsEnd(b, q) ==
    LET w == SkipWhile(b, q, Whitespace)
    IN  IF w > q /\ NameEnd(b, w) # 0 THEN WordsEnd(b, NameEnd(b, w)) ELSE q

\* (?:,\s*\d+)*
RECURSIVE SupTail(_, _)
SupTail(b, e) ==
    IF e <= Len(b) /\ b[e] = ","
    THEN LET d == SkipWhile(b, e + 1, Whitespace)
             f == SkipWhile(b, d, Digits)
         IN  IF f > d THEN SupTail(b, f) ELSE e
    ELSE e

\* (?:\s*\d+(?:,\s*\d+)*)?
SupEnd(b, q) ==
    LET d == SkipWhile(b, q, Whitespace)
        e == SkipWhile(b, d, Digits)
    IN  IF e > d THEN SupTail(b, e) ELSE q

\* one name group: capitalised words, then optional superscripts
GroupEnd(b, p) ==
    IF NameEnd(b, p) = 0 THEN 0 ELSE SupEnd(b, WordsEnd(b, NameEnd(b, p)))

\* (?:,\s*<group>)*
RECURSIVE GroupsTail(_, _)
GroupsTail(b, q) ==
    IF q <= Len(b) /\ b[q] = ","
    THEN LET g == GroupEnd(b, SkipWhile(b, q + 1, Whitespace))
         IN  IF g # 0 THEN GroupsTail(b, g) ELSE q
    ELSE q

\* re.search(<author pattern>, author_block): <<start, end>> or <<>>
AuthorMatch(b) ==
    LET starts == {p \in 1..Len(b) : NameEnd(b, p) # 0}
    IN  IF starts = {} THEN <<>>
        ELSE LET p == SetMin(starts)
             IN  <<p, GroupsTail(b, GroupEnd(b, p))>>

(* The abstract pattern of line 48 (DOTALL, IGNORECASE):                   *)
(*   abstract\s*(.*?)(?=\n\s*\d+\s+|\n\s*1\s+introduction)                 *)

\* the lookahead holds at position e
BoundaryAt(t, e) ==
    /\ e <= Len(t)
    /\ t[e] = "\n"
    /\ LET w == SkipWhile(t, e + 1, Whitespace)
           d == SkipWhile(t, w, Digits)
           v == SkipWhile(t, w + 1, Whitespace)
       IN  \/ d > w /\ d <= Len(t) /\ t[d] \in Whitespace
           \/ /\ w <= Len(t) /\ t[w] = "1"
              /\ v > w + 1
              /\ StartsAtCI(t, v, IntroWord)

\* \s* took k characters after position a; the lazy group then stops at the
\* first boundary; with none, \s* gives one character back
RECURSIVE LazyCapture(_, _, _)
LazyCapture(t, a, k) ==
    LET B == {e \in (a + k)..Len(t) : BoundaryAt(t, e)}
    IN  IF B # {} THEN <<a + k, SetMin(B)>>
        ELSE IF k = 0 THEN <<>>
        ELSE LazyCapture(t, a, k - 1)

\* the match attempted at start position p: capture span <<from, to>> or <<>>
AbstractAt(t, p) ==
    IF StartsAtCI(t, p, AbstractWord)
    THEN LET a == p + Len(AbstractWord)
         IN  LazyCapture(t, a, SkipWhile(t, a, Whitespace) - a)
    ELSE <<>>

\* re.search: the leftmost start position that matches
AbstractMatch(t) ==
    LET starts == {p \in 1..Len(t) : AbstractAt(t, p) # <<>>}
    IN  IF starts = {} THEN <<>> ELSE AbstractAt(t, SetMin(starts))

\* variant: a pair of spaces becomes a single "&nbsp;"
RenderEncodeSingle(t) ==
    Replace(Replace(t, NL, BR), TwoSpaces, SubSeq(NBSP2, 1, 6))

\* .replace('\n', '<br>').replace('  ', '&nbsp;&nbsp;'), lines 50 and 53
RenderEncode(t) == Replace(Replace(t, NL, BR), TwoSpaces, NBSP2)

\* the function with its locals; exc names the exception that escapes
extract_metadata(t) ==
    LET lines     == SplitLines(t)
        title     == FirstTitle(lines, 1)
        guard     == TitleInLines(lines, title)
        idx       == IF guard THEN ListIndex(lines, Strip(title)) ELSE 0
        start_idx == IF guard THEN idx + 1 ELSE 0
        end_idx   == EndIdx(lines, start_idx)
        block     == Strip(JoinSlice(lines, start_idx, end_idx))
        am        == AuthorMatch(block)
        authors   == IF am = <<>> THEN UnknownAuthors
                     ELSE Strip(Replace(SubSeq(block, am[1], am[2] - 1), NL, <<" ">>))
        bm        == AbstractMatch(t)
        abstract  == IF bm = <<>> THEN AbstractNotFound
                     ELSE RenderEncode(Strip(SubSeq(t, bm[1], bm[2] - 1)))
    IN  IF guard /\ idx = NotFound
        THEN [exc |-> "ValueError", title |-> <<>>, authors |-> <<>>,
              abstract |-> <<>>, full_text |-> <<>>,
              start_idx |-> 0, end_idx |-> 0, author_match |-> <<>>]
        ELSE [exc |-> "none", title |-> title, authors |-> authors,
              abstract |-> abstract, full_text |-> RenderEncode(t),
              start_idx |-> start_idx, end_idx |-> end_idx, author_match |-> am]

\* paper.full_text.replace('<br>', '\n').replace('&nbsp;&nbsp;', '  ')
DecodeFullText(s) == Replace(Replace(s, BR, NL), NBSP2, TwoSpaces)

(***************************************************************************)
(* Inputs of the text functions: concatenations of a few fragments         *)
(***************************************************************************)
MaxChunks == 3

MaxEncChunks == 5

MaxFillers == 1

RECURSIVE Repeat(_, _)
Repeat(w, n) == IF n <= 0 THEN <<>> ELSE w \o Repeat(w, n - 1)

\* LookAhead lines that hold neither a name nor a marker
Filler == Repeat(<<"\n","x">>, LookAhead)

AuthorLine == <<"\n","C","d","1",","," ","E","f">>

Heading == <<"\n","1"," ">>

MarkerLine == <<"\n","D","a","t","e">>

LongLower == <<"d","e","e","p"," ","l","e","a","r","n","i","n","g">>

ExtractChunks == { NL, <<" ">>, <<"A","b">>, AuthorLine, AbstractWord,
                   Heading, MarkerLine, LongLower }

EncodeChunks == { NL, <<" ">>, <<"x">>, BR, <<"&","n","b","s","p",";">> }

RECURSIVE Flatten(_)
Flatten(ss) == IF ss = <<>> THEN <<>> ELSE Head(ss) \o Flatten(Tail(ss))

TextsOver(chunks, n) ==
    UNION { {Flatten(f) : f \in [1..k -> chunks]} : k \in 0..n }

\* the texts of at most n fragments that hold at most MaxFillers fillers
TextsWithFiller(chunks, n) ==
    UNION { {Flatten(f) : f \in {g \in [1..k -> chunks \cup {Filler}] :
                 Cardinality({i \in 1..k : g[i] = Filler}) <= MaxFillers}}
            : k \in 0..n }

ExtractInputs == TextsWithFiller(ExtractChunks, MaxChunks)

EncodeInputs == TextsOver(EncodeChunks, MaxEncChunks)

None == [exc |-> "unset"]

NoText == <<"?">>

(***************************************************************************)
(* The text pipeline: upload extracts, summarize decodes the stored text   *)
(***************************************************************************)
InitText ==
    /\ text \in ExtractInputs \cup EncodeInputs
    /\ out = None
    /\ decoded = NoText
    /\ papers = <<>>
    /\ req = <<>>
    /\ calls = <<>>
    /\ resp = "none"

\* title, authors, abstract, full_text = extract_metadata(text)   (line 119)
ExtractMetadata ==
    /\ out = None
    /\ out' = extract_metadata(text)
    /\ UNCHANGED <<text, decoded, papers, req, calls, resp>>

\* the argument summarize_paper passes to generate_summary   (line 147)
DecodeStored ==
    /\ out # None
    /\ out.exc = "none"
    /\ decoded = NoText
    /\ decoded' = DecodeFullText(out.full_text)
    /\ UNCHANGED <<text, out, papers, req, calls, resp>>

NextText == ExtractMetadata \/ DecodeStored

SpecText == InitText /\ [][NextText]_vars

(***************************************************************************)
(* Properties of the text pipeline                                         *)
(***************************************************************************)
Extracted == out # None /\ out.exc = "none"

\* 0-based indexes of the lines of L the title filter of the code accepts
CodeTitleLines(L) == {i \in 0..(Len(L) - 1) : TitleQualifies(L[i + 1])}

\* 0-based indexes of the lines of L whose trimmed text is non-empty and
\* begins with an uppercase character or is longer than TitleMinLen
TrimmedTitleLines(L) ==
    {i \in 0..(Len(L) - 1) :
        LET s == Strip(L[i + 1])
        IN  s # <<>> /\ (IsUpper(s[1]) \/ Len(s) > TitleMinLen)}

HasNamePair(s) ==
    \E p \in 1..(Len(s) - 1) : s[p] \in UpperChars /\ s[p + 1] \in LowerChars

HasAbstractWord(s) ==
    \E p \in 1..(Len(s) - Len(AbstractWord) + 1) : StartsAtCI(s, p, AbstractWord)

\* C1: extract_metadata never raises and returns its four strings; a field
\* with no match is its placeholder; for the empty input all three fields
\* are placeholders and full_text is empty.
ExtractIsTotal ==
    out # None =>
        /\ out.exc = "none"
        /\ {"title", "authors", "abstract", "full_text"} \subseteq DOMAIN out
        /\ CodeTitleLines(SplitLines(text)) = {} => out.title = UnknownTitle
        /\ ~HasNamePair(text) => out.authors = UnknownAuthors
        /\ out.author_match = <<>> => out.authors = UnknownAuthors
        /\ ~HasAbstractWord(text) => out.abstract = AbstractNotFound
        /\ text = <<>> => /\ out.title = UnknownTitle
                          /\ out.authors = UnknownAuthors
                          /\ out.abstract = AbstractNotFound
                          /\ out.full_text = <<>>

EmptyInputExtracted ==
    /\ out # None
    /\ text = <<>>
    /\ out.title = UnknownTitle
    /\ out.full_text = <<>>

\* C3: the title is the trimmed text of the first line whose trimmed text is
\* non-empty and begins with an uppercase character or is longer than 10
\* characters, and "Unknown Title" exactly when there is no such line.
TitleIsFirstTrimmedCandidate ==
    Extracted =>
        LET L == SplitLines(text)
            C == TrimmedTitleLines(L)
        IN  IF C = {}
            THEN out.title = UnknownTitle
            ELSE /\ out.title = Strip(L[SetMin(C) + 1])
                 /\ out.title # UnknownTitle

\* where the author match lies: line indexes (0-based) of its first and last
\* character within ' '.join(lines[start_idx:end_idx])
RECURSIVE LineOf(_, _, _)
LineOf(lines, a, x) ==
    IF a + 1 >= Len(lines) \/ x <= Len(lines[a + 1]) THEN a
    ELSE LineOf(lines, a + 1, x - Len(lines[a + 1]) - 1)

BlockLead(L) ==
    SkipWhile(JoinSlice(L, out.start_idx, out.end_idx), 1, Whitespace) - 1

AuthorFirstLine(L) ==
    LineOf(L, out.start_idx, out.author_match[1] + BlockLead(L))

AuthorLastLine(L) ==
    LineOf(L, out.start_idx, out.author_match[2] - 1 + BlockLead(L))

AuthorsFound == Extracted /\ out.author_match # <<>>

\* marker lines inside the window of LookAhead lines that starts at start_idx
WindowMarkers(L) ==
    {i \in out.start_idx..(Min2(out.start_idx + LookAhead, Len(L)) - 1) :
        HasMarker(Strip(L[i + 1]))}

ExpectedEnd(L) ==
    IF WindowMarkers(L) = {} THEN Len(L) ELSE SetMin(WindowMarkers(L))

\* C4 as stated: the authors are never taken from text more than 15 lines
\* after the title line.
AuthorsWithinLookAhead ==
    AuthorsFound =>
        LET L == SplitLines(text)
            T == CodeTitleLines(L)
        IN  T # {} => AuthorLastLine(L) <= SetMin(T) + LookAhead

\* C4 amended: the window bounds only the search for the marker line.  The
\* block ends at the first marker line inside the window, and at the end of
\* the document when the window holds none; the authors are taken from the
\* lines of that block, so they stay inside the window only when it holds a
\* marker line.
AuthorsWithinBlock ==
    Extracted =>
        LET L == SplitLines(text)
            E == ExpectedEnd(L)
        IN  /\ out.end_idx = E
            /\ AuthorsFound =>
                  /\ Contains(JoinSlice(L, out.start_idx, E), out.authors)
                  /\ out.start_idx <= AuthorFirstLine(L)
                  /\ AuthorLastLine(L) < E
                  /\ WindowMarkers(L) # {}
                        => AuthorLastLine(L) < out.start_idx + LookAhead

AuthorsBeforeMarker ==
    /\ AuthorsFound
    /\ LET L == SplitLines(text)
           T == CodeTitleLines(L)
       IN  /\ T # {}
           /\ WindowMarkers(L) # {}
           /\ out.start_idx = SetMin(T) + 1
           /\ AuthorFirstLine(L) >= out.start_idx

\* C5: when a title line is found the author block starts right after the
\* first line whose trimmed text equals the title, so the title line is not
\* in the block and gives no authors, also when it carries surrounding
\* whitespace.
AuthorBlockStartsAfterTitle ==
    Extracted =>
        LET L == SplitLines(text)
            k == SetMin({i \in 0..(Len(L) - 1) : Strip(L[i + 1]) = out.title})
        IN  CodeTitleLines(L) # {} =>
                /\ out.start_idx = k + 1
                /\ AuthorsFound => AuthorFirstLine(L) > k

\* a section-boundary line starts at e: line break, optional whitespace, a
\* number, whitespace
SectionBoundary(t, e) ==
    /\ t[e] = "\n"
    /\ \E w \in (e + 1)..Len(t) : \E d \in (w + 1)..Len(t) :
          /\ \A j \in (e + 1)..(w - 1) : t[j] \in Whitespace
          /\ \A j \in w..(d - 1) : t[j] \in Digits
          /\ t[d] \in Whitespace

\* C6: with an "abstract" occurrence followed later by a section-boundary
\* line, the abstract is the trimmed, render-encoded text between the first
\* occurrence and the first boundary after it.
AbstractStopsAtFirstBoundary ==
    Extracted =>
        LET occ == {p \in 1..Len(text) : StartsAtCI(text, p, AbstractWord)}
            a   == SetMin(occ) + Len(AbstractWord)
            bnd == {e \in a..Len(text) : SectionBoundary(text, e)}
        IN  (occ # {} /\ bnd # {}) =>
                out.abstract =
                    RenderEncode(Strip(SubSeq(text, a, SetMin(bnd) - 1)))

\* the encoding described run by run
RECURSIVE RunEncode(_, _)
RunEncode(t, i) ==
    IF i > Len(t) THEN <<>>
    ELSE IF t[i] = "\n" THEN BR \o RunEncode(t, i + 1)
    ELSE IF t[i] = " "
         THEN LET n == SkipWhile(t, i, {" "}) - i
              IN  Repeat(NBSP2, n \div 2) \o Repeat(<<" ">>, n % 2)
                      \o RunEncode(t, i + n)
    ELSE <<t[i]>> \o RunEncode(t, i + 1)

\* C7: full_text is the input with every line break replaced by "<br>" and
\* every maximal run of n spaces replaced by n div 2 double-space markers
\* followed by n mod 2 spaces, all other characters unchanged and in order.
FullTextEncodesRuns == Extracted => out.full_text = RunEncode(text, 1)

OddRunEncoded ==
    /\ Extracted
    /\ Contains(text, <<"x"," "," "," ","\n">>)
    /\ Contains(out.full_text, <<"x">> \o NBSP2 \o <<" ">> \o BR)

\* C10: decoding the stored full_text gives back the raw text.
DecodeInvertsEncode == decoded # NoText => decoded = text

(***************************************************************************)
(* The request handlers (src/app.py:102-219) over the Paper table          *)
(* (src/models.py:5-15).  A handler is one step per database access or     *)
(* text-generation call; handlers of different requests interleave.        *)
(***************************************************************************)
MaxPapers == 1

MaxCalls == 3

MaxSlots == 2

Slots == 1..MaxSlots

\* a column that holds no value; no text equals it, texts being sequences of
\* single characters
NULL == <<"NULL">>

\* "not value" of Python: None and the empty string
Falsy(v) == v = NULL \/ v = <<>>

FutureWork == <<"F","u","t","u","r","e"," ","W","o","r","k",":">>

DefaultFutureWork ==
    <<"F","u","t","u","r","e"," ","d","i","r","e","c","t","i","o","n","s",":"," ">> \o
    <<"E","x","p","l","o","r","e"," ","m","u","l","t","i","m","o","d","a","l"," ","e","x","t","e","n","s","i","o","n","s",".">>

\* texts of uploaded files
UploadTexts == { <<"A","b","\n","a","b","s","t","r","a","c","t"," ","x","\n","1"," ">> }

\* message contents the text-generation service may return
Completions == { <<>>, <<"s","\n","t">> }

FindingsCompletions == { <<"k","\n">> }

GapsCompletions == { <<"g","\n">>,
                     <<"g"," ","F","u","t","u","r","e"," ","W","o","r","k",":"," ","f"," ">> }

PaperIds == 1..MaxPapers

Stored(id) == id \in 1..Len(papers)

Idle == [pc |-> "idle", id |-> 0, id2 |-> 0, a |-> NULL]

\* the handler of slot r returns; its locals are dropped with the request and
\* resp is the response sent last
Respond(r, st) == req' = [req EXCEPT ![r] = Idle] /\ resp' = st

\* the handler of slot r moves on to its next step
Goto(r, rec) == req' = [req EXCEPT ![r] = rec] /\ UNCHANGED resp

InitApp ==
    /\ text = <<>>
    /\ out = None
    /\ decoded = NoText
    /\ papers = <<>>
    /\ req = [r \in Slots |-> Idle]
    /\ calls = [id \in PaperIds |-> [summary |-> 0, findings |-> 0, gaps |-> 0]]
    /\ resp = "none"

\* Paper(title=..., authors=..., abstract=..., full_text=..., pdf_path=...)
NewPaper(m) ==
    [title |-> m.title, authors |-> m.authors, abstract |-> m.abstract,
     full_text |-> m.full_text, summary |-> NULL, key_findings |-> NULL,
     gaps |-> NULL, future_work |-> NULL]

\* POST / with a PDF whose text is t   (lines 114-128)
Upload ==
    /\ Len(papers) < MaxPapers
    /\ \E t \in UploadTexts :
          /\ extract_metadata(t).exc = "none"
          /\ papers' = Append(papers, NewPaper(extract_metadata(t)))
    /\ UNCHANGED <<text, out, decoded, req, calls, resp>>

\* variant: the summary is committed before the findings are assigned
SetSummaryOnly(row, summary, findings) == [row EXCEPT !.summary = summary]

\* paper.summary = summary; paper.key_findings = findings; commit
SetSummary(row, summary, findings) ==
    [row EXCEPT !.summary = summary, !.key_findings = findings]

\* paper.gaps, paper.future_work = ...; commit
SetGaps(row, gaps, future_work) ==
    [row EXCEPT !.gaps = gaps, !.future_work = future_work]

\* response.choices[0].message.content.replace('\n', '<br>')
Content(c) == Replace(c, NL, BR)

\* service calls that returned, over all papers and kinds
RECURSIVE SumCalls(_)
SumCalls(id) ==
    IF id = 0 THEN 0
    ELSE calls[id].summary + calls[id].findings + calls[id].gaps + SumCalls(id - 1)

BudgetLeft == SumCalls(MaxPapers) < MaxCalls

Called(id, kind) == calls' = [calls EXCEPT ![id][kind] = @ + 1]

(* summarize_paper, lines 143-152 *)
StartSummarize(r, id) ==
    /\ req[r].pc = "idle"
    /\ IF ~Stored(id) THEN Respond(r, "404")
       ELSE IF Falsy(papers[id].summary)
            THEN Goto(r, [Idle EXCEPT !.pc = "sum_gen", !.id = id])
            ELSE Respond(r, "200")
    /\ UNCHANGED <<text, out, decoded, papers, calls>>

\* generate_summary(decoded full_text), of summarize_paper or compare_papers
GenerateSummary(r) ==
    /\ req[r].pc \in {"sum_gen", "cmp_gen1", "cmp_gen2"}
    /\ LET me   == req[r]
           id   == IF me.pc = "cmp_gen2" THEN me.id2 ELSE me.id
           next == CASE me.pc = "sum_gen"  -> "sum_find"
                     [] me.pc = "cmp_gen1" -> "cmp_find1"
                     [] me.pc = "cmp_gen2" -> "cmp_find2"
       IN  \/ /\ Respond(r, "500 APIError")
              /\ UNCHANGED calls
           \/ /\ BudgetLeft
              /\ \E c \in Completions :
                    /\ Goto(r, [me EXCEPT !.pc = next, !.a = Content(c)])
                    /\ Called(id, "summary")
    /\ UNCHANGED <<text, out, decoded, papers>>

\* findings = extract_key_findings(summary); the two assignments; commit.
\* Between the return of the call and the commit the handler touches only
\* its own objects, so the three are one step.
FindingsAndCommit(r) ==
    /\ req[r].pc \in {"sum_find", "cmp_find1", "cmp_find2"}
    /\ LET me == req[r]
           id == IF me.pc = "cmp_find2" THEN me.id2 ELSE me.id
       IN  \/ /\ Respond(r, "500 APIError")
              /\ UNCHANGED <<calls, papers>>
           \/ /\ BudgetLeft
              /\ \E c \in FindingsCompletions :
                    papers' = [papers EXCEPT ![id] = SetSummary(@, me.a, Content(c))]
              /\ Called(id, "findings")
              /\ CASE me.pc = "sum_find"  -> Respond(r, "200")
                   [] me.pc = "cmp_find1" ->
                          \* the commit of line 196 expires the session's objects
                          Goto(r, [me EXCEPT !.pc = "cmp_check2", !.a = NULL])
                   [] me.pc = "cmp_find2" ->
                          Goto(r, [me EXCEPT !.pc = "cmp_llm", !.a = NULL])
    /\ UNCHANGED <<text, out, decoded>>

(* gaps_paper, lines 154-166 *)

\* paper.summary.replace('<br>', '\n') or paper.abstract.replace('<br>', '\n')
\* for a summary that is a string
GapsArg(row) ==
    IF Replace(row.summary, BR, NL) # <<>>
    THEN Replace(row.summary, BR, NL)
    ELSE Replace(row.abstract, BR, NL)

StartGaps(r, id) ==
    /\ req[r].pc = "idle"
    /\ IF ~Stored(id) THEN Respond(r, "404")
       ELSE IF ~Falsy(papers[id].gaps) THEN Respond(r, "200")
       ELSE IF papers[id].summary = NULL
            THEN Respond(r, "500 AttributeError")   \* None has no replace
       ELSE Goto(r, [Idle EXCEPT !.pc = "gaps_gen", !.id = id,
                                 !.a = GapsArg(papers[id])])
    /\ UNCHANGED <<text, out, decoded, papers, calls>>

\* gaps_text.split('Future Work:', 1), lines 159-164
SplitGaps(gaps_text) ==
    IF Contains(gaps_text, FutureWork)
    THEN LET p == SetMin({k \in 1..Len(gaps_text) : StartsAt(gaps_text, k, FutureWork)})
         IN  <<SubSeq(gaps_text, 1, p - 1),
               Strip(SubSeq(gaps_text, p + Len(FutureWork), Len(gaps_text)))>>
    ELSE <<gaps_text, DefaultFutureWork>>

\* gaps_text = analyze_gaps(...); the assignments to paper.gaps and
\* paper.future_work; commit; the response
AnalyzeGapsAndCommit(r) ==
    /\ req[r].pc = "gaps_gen"
    /\ \/ /\ Respond(r, "500 APIError")
          /\ UNCHANGED <<calls, papers>>
       \/ /\ BudgetLeft
          /\ \E c \in GapsCompletions :
                LET parts == SplitGaps(Content(c))
                IN  papers' = [papers EXCEPT ![req[r].id] =
                                   SetGaps(@, parts[1], parts[2])]
          /\ Called(req[r].id, "gaps")
          /\ Respond(r, "200")
    /\ UNCHANGED <<text, out, decoded>>

(* compare_papers, lines 185-219 *)
StartCompare(r, id1, id2) ==
    /\ req[r].pc = "idle"
    /\ IF ~Stored(id1) \/ ~Stored(id2) THEN Respond(r, "404")
       ELSE LET me == [Idle EXCEPT !.id = id1, !.id2 = id2]
            IN  IF Falsy(papers[id1].summary)
                THEN Goto(r, [me EXCEPT !.pc = "cmp_gen1"])
                ELSE IF Falsy(papers[id2].summary)
                     THEN Goto(r, [me EXCEPT !.pc = "cmp_gen2"])
                     ELSE Goto(r, [me EXCEPT !.pc = "cmp_llm"])
    /\ UNCHANGED <<text, out, decoded, papers, calls>>

\* "if not p2.summary" after the commit of line 196 reloads p2 from the table
CheckSecond(r) ==
    /\ req[r].pc = "cmp_check2"
    /\ IF Falsy(papers[req[r].id2].summary)
       THEN Goto(r, [req[r] EXCEPT !.pc = "cmp_gen2"])
       ELSE Goto(r, [req[r] EXCEPT !.pc = "cmp_llm"])
    /\ UNCHANGED <<text, out, decoded, papers, calls>>

\* the comparison call of lines 215-219
CompareCall(r) ==
    /\ req[r].pc = "cmp_llm"
    /\ \/ Respond(r, "500 APIError")
       \/ Respond(r, "200")
    /\ UNCHANGED <<text, out, decoded, papers, calls>>

Next ==
    \/ Upload
    \/ \E r \in Slots, id \in PaperIds : StartSummarize(r, id)
    \/ \E r \in Slots : GenerateSummary(r)
    \/ \E r \in Slots : FindingsAndCommit(r)
    \/ \E r \in Slots, id \in PaperIds : StartGaps(r, id)
    \/ \E r \in Slots : AnalyzeGapsAndCommit(r)
    \/ \E r \in Slots, id1 \in PaperIds, id2 \in PaperIds : StartCompare(r, id1, id2)
    \/ \E r \in Slots : CheckSecond(r)
    \/ \E r \in Slots : CompareCall(r)

Spec == InitApp /\ [][Next]_vars

(***************************************************************************)
(* Properties of the handlers                                              *)
(***************************************************************************)
\* C2: for every paper each derived field is generated at most once: the
\* text-generation service returns a summary, the key findings and the gaps
\* of a paper at most once each, later requests being served from the table.
DerivedGeneratedOnce ==
    \A id \in PaperIds :
        /\ calls[id].summary <= 1
        /\ calls[id].findings <= 1
        /\ calls[id].gaps <= 1

\* C8: a gaps request on a paper whose summary is null does not fail on the
\* missing summary (it analyses the abstract instead).
GapsSurvivesNullSummary == resp # "500 AttributeError"

\* C9: in every persisted state key_findings is non-null exactly when
\* summary is, and future_work is non-null whenever gaps is.
DerivedFieldsPaired ==
    \A id \in 1..Len(papers) :
        /\ (papers[id].key_findings # NULL) <=> (papers[id].summary # NULL)
        /\ (papers[id].gaps # NULL) => (papers[id].future_work # NULL)

LostSummaryThenStored ==
    /\ \A r \in Slots : req[r].pc = "idle"
    /\ \E id \in 1..Len(papers) :
          /\ papers[id].summary # NULL
          /\ papers[id].key_findings # NULL
          /\ calls[id].summary > calls[id].findings

====
